---- MODULE Spec2Model ----
(***************************************************************************)
(* Heltec WiFi LoRa 32 firmware: the UART <-> LoRa bridge sketch and the   *)
(* "Hello World!" responder sketch of heltec_firmware.ino, and the serial  *)
(* echo sketch serial_test.                                                *)
(*                                                                         *)
(* One action per handler: setup() and loop() of each sketch, the infinite *)
(* while(true) of a failed setup, and the host writing a byte to the UART. *)
(* A handler's calls on the radio, the serial port and the display are     *)
(* recorded, in program order, in the log `ev` of the handler's last run,  *)
(* with the ms at which each is issued: delays, a serial read that times   *)
(* out, lora.receive, lora.transmit, lora.begin and display.display() take *)
(* time. The UART receives while a handler runs: what the host writes      *)
(* meanwhile is in the receive buffer when the handler returns.            *)
(* Strings are sequences of one-character strings.                         *)
(***************************************************************************)
EXTENDS Integers, Sequences, FiniteSets, TLC

VARIABLES
    sketch,        \* which sketch is flashed: "bridge", "responder" or "echo"
    pc,            \* "setup", "loop", or "halted" (the while(true) of a failed setup)
    mode,          \* radio state as commanded by the sketch (last mode command issued)
    rxbuf,         \* bytes the host has written to the UART and the sketch has not read
    fed,           \* number of bytes the host has written so far
    iters,         \* number of loop() iterations run so far (going round 1..MaxIters
                   \* where loop() runs without end)
    now,           \* value of millis() at the last reading, an unsigned 32-bit value
                   \* (counted from lastActivity where loop() runs without end)
    lastActivity,  \* static unsigned long lastActivity of the bridge loop
                   \* (lastStatusUpdate of the echo loop)
    ev,            \* calls made by the last handler run, in program order
    nTx,           \* total lora.transmit calls
    nLines,        \* total serial lines read whose trimmed form is non-empty
    nWrites,       \* total serial writes (print / println calls)
    nPollOk,       \* total lora.receive calls that returned RADIOLIB_ERR_NONE
    wrap,          \* one call of drawWrappedString: its arguments and what it drew
    arrived,       \* every byte the host has written, in order (kept when whole lines are fed)
    sent           \* every payload handed to lora.transmit, in order (kept when whole lines are fed)

vars == <<sketch, pc, mode, rxbuf, fed, iters, now, lastActivity, ev,
          nTx, nLines, nWrites, nPollOk, wrap, arrived, sent>>

----------------------------------------------------------------------------
(* Bounds of the model *)

MaxBytes == 3      \* bytes the host writes in one run
MaxIters == 2      \* loop() iterations in one run

(* Inputs *)

Bytes    == {"a", " ", "\n"}                    \* bytes the host may write
Payloads == {<<" ", "x">>}                      \* datagrams the radio may deliver
Elapse   == {1, 600}                            \* ms spent in one blocking lora.receive

(* Result codes of the radio library *)

RADIOLIB_ERR_NONE       == 0
RADIOLIB_ERR_RX_TIMEOUT == -6

BeginStates == {RADIOLIB_ERR_NONE, -2}                           \* lora.begin
TxStates    == {RADIOLIB_ERR_NONE, -5}                           \* lora.transmit
RxStates    == {RADIOLIB_ERR_NONE, RADIOLIB_ERR_RX_TIMEOUT, -7}    \* lora.receive

----------------------------------------------------------------------------
(* unsigned long: 32 bits, kept as two 16-bit halves *)

Half == 2^16

U32(h, l) == [hi |-> h, lo |-> l]

\* a + n, for 0 <= n < 2^16, modulo 2^32
U32Add(a, n) ==
    LET l == a.lo + n
    IN  U32((a.hi + (l \div Half)) % Half, l % Half)

\* a - b with the halves subtracted apart, the borrow from the low half lost
U32Sub_NoBorrow(a, b) ==
    U32((a.hi - b.hi + Half) % Half, (a.lo - b.lo + Half) % Half)

\* a - b modulo 2^32
U32Sub(a, b) ==
    LET borrow == IF a.lo < b.lo THEN 1 ELSE 0
    IN  U32((a.hi - b.hi - borrow + 2 * Half) % Half, (a.lo - b.lo + Half) % Half)

\* a > n, for 0 <= n < 2^16
U32Gt(a, n) == a.hi > 0 \/ a.lo > n

----------------------------------------------------------------------------
(* Arduino String and Stream *)

\* the vertical tab, byte 0x0b
VT == ""

\* isspace() of the C locale: space, \t, \n, \v, \f, \r
IsSpace(c) == c \in {" ", "\t", "\n", VT, "\f", "\r"}

RECURSIVE TrimLeft(_)
TrimLeft(s) ==
    IF s # <<>> /\ IsSpace(Head(s)) THEN TrimLeft(Tail(s)) ELSE s

RECURSIVE TrimRight(_)
TrimRight(s) ==
    IF s # <<>> /\ IsSpace(s[Len(s)]) THEN TrimRight(SubSeq(s, 1, Len(s) - 1)) ELSE s

\* String::trim(): leading and trailing whitespace removed
Trim(s) == TrimRight(TrimLeft(s))

\* Stream's timeout, which no sketch changes: a read that finds no terminator
\* returns once no byte has come for this many ms
StreamTimeout == 1000

\* readStringUntil that hands back one line and discards what else is buffered
ReadStringUntil_Flush(buf, waited) ==
    LET hits == {j \in 1..Len(buf) : buf[j] = "\n"}
        k    == IF hits = {} THEN 0 ELSE CHOOSE j \in hits : \A h \in hits : j <= h
    IN  IF k = 0 THEN [line |-> buf, rest |-> <<>>, wait |-> waited + StreamTimeout]
        ELSE [line |-> SubSeq(buf, 1, k - 1), rest |-> <<>>, wait |-> waited]

\* index of the first terminator in buf, 0 when there is none
FindTerminator(buf, i) ==
    LET hits == {j \in i..Len(buf) : buf[j] = "\n"}
    IN  IF hits = {} THEN 0 ELSE CHOOSE j \in hits : \A k \in hits : j <= k

\* Stream::readStringUntil('\n') on buf, the bytes in the receive buffer at the
\* call followed by those that came while the read waited, waited ms in all:
\* the bytes before the first terminator, which is consumed and dropped; without
\* a terminator the read waits for the timeout after the last byte and returns
\* every byte that has arrived. wait is the ms the read took
ReadStringUntil(buf, waited) ==
    LET k == FindTerminator(buf, 1)
    IN  IF k = 0 THEN [line |-> buf, rest |-> <<>>, wait |-> waited + StreamTimeout]
        ELSE [line |-> SubSeq(buf, 1, k - 1), rest |-> SubSeq(buf, k + 1, Len(buf)),
              wait |-> waited]

Digit(d) == CASE d = 0 -> "0" [] d = 1 -> "1" [] d = 2 -> "2" [] d = 3 -> "3"
              [] d = 4 -> "4" [] d = 5 -> "5" [] d = 6 -> "6" [] d = 7 -> "7"
              [] d = 8 -> "8" [] d = 9 -> "9"

RECURSIVE NatToStr(_)
NatToStr(n) ==
    IF n < 10 THEN <<Digit(n)>> ELSE NatToStr(n \div 10) \o <<Digit(n % 10)>>

\* String(int) and Print::print(int): decimal, with a leading minus sign
IntToStr(n) == IF n < 0 THEN <<"-">> \o NatToStr(-n) ELSE NatToStr(n)

\* Print::println(s): s followed by the line terminator "\r\n"
Println(s) == s \o <<"\r", "\n">>

(* String literals of the sketches *)

S_LoRaBridge  == <<"L","o","R","a"," ","B","r","i","d","g","e">>
S_Init        == <<"I","n","i","t","i","a","l","i","z","i","n","g",".",".",".">>
S_Ready       == <<"R","e","a","d","y">>
S_Waiting     == <<"W","a","i","t","i","n","g",".",".",".">>
S_Failed      == <<"F","A","I","L","E","D","!">>
S_TxOk        == <<"T","X"," ","O","K">>
S_RxOk        == <<"R","X"," ","O","K">>
S_RxError     == <<"R","X"," ","E","r","r","o","r">>
S_Listening   == <<"L","i","s","t","e","n","i","n","g",".",".",".">>
S_RxInit      == <<"L","o","R","a"," ","R","X"," ","I","n","i","t",".",".",".">>
S_LoRaReady   == <<"L","o","R","a"," ","R","e","a","d","y">>
S_LoRaFail    == <<"L","o","R","a"," ","F","a","i","l">>
S_RxOkColon   == <<"R","X"," ","O","K",":">>
S_Hello       == <<"H","e","l","l","o"," ","W","o","r","l","d","!">>
S_ReplySent   == <<"R","e","p","l","y"," ","S","e","n","t">>
S_ReplyFail   == <<"R","e","p","l","y"," ","F","a","i","l">>
S_TagRxOk     == <<"[","R","X"," ","O","K","]"," ">>
S_TagTxOk     == <<"[","T","X"," ","O","K","]"," ">>
S_TagTxFail   == <<"[","T","X"," ","F","A","I","L","]"," ">>
S_TagRxFail   == <<"[","R","X"," ","F","A","I","L","]"," ">>

----------------------------------------------------------------------------
(* The log of calls *)

\* one call: its name, its string argument or result, its integer argument or
\* result, the frame shown (display.display() only), and the radio mode
\* commanded when the call was issued (filled in by Stamp), and the ms elapsed
\* since the handler began when the call was issued (filled in by Timed)
Ev(op, str, num, fr) ==
    [op |-> op, s |-> str, n |-> num, frame |-> fr, m |-> "-", t |-> 0]

E_begin(r)         == Ev("begin", <<>>, r, <<>>)
E_config(what, v)  == Ev(what, <<>>, v, <<>>)
E_standby          == Ev("standby", <<>>, 0, <<>>)
E_startReceive     == Ev("startReceive", <<>>, 0, <<>>)
E_transmit(msg, r) == Ev("transmit", msg, r, <<>>)
E_receive(msg, r)  == Ev("receive", msg, r, <<>>)
E_delay(ms)        == Ev("delay", <<>>, ms, <<>>)
E_read(raw, ms)    == Ev("read", raw, ms, <<>>)
E_print(bytes)     == Ev("print", bytes, 0, <<>>)
E_display(fr)      == Ev("display", <<>>, 0, fr)
E_halt             == Ev("halt", <<>>, 0, <<>>)

\* the radio mode commanded once call c has been issued from mode m
ModeAfterCall(m, c) ==
    CASE c.op = "standby"      -> "Standby"
      [] c.op = "transmit"     -> "Transmitting"
      [] c.op = "startReceive" -> "Receiving"
      [] c.op = "halt"         -> "Fault"
      [] OTHER                 -> m

RECURSIVE ModeAfter(_, _)
ModeAfter(m, calls) ==
    IF calls = <<>> THEN m ELSE ModeAfter(ModeAfterCall(m, Head(calls)), Tail(calls))

RECURSIVE Stamp(_, _)
Stamp(m, calls) ==
    IF calls = <<>> THEN <<>>
    ELSE <<[Head(calls) EXCEPT !.m = m]>> \o Stamp(ModeAfterCall(m, Head(calls)), Tail(calls))

\* the ms the blocking calls of one handler run take: lora.receive,
\* lora.transmit, display.display() and lora.begin
Tm(r, x, g, b) == [receive |-> r, transmit |-> x, display |-> g, begin |-> b]

\* the ms call c takes: delay(n) takes n, a read the time it waited
Dur(c, tm) ==
    CASE c.op = "delay"    -> c.n
      [] c.op = "read"     -> c.n
      [] c.op = "receive"  -> tm.receive
      [] c.op = "transmit" -> tm.transmit
      [] c.op = "display"  -> tm.display
      [] c.op = "begin"    -> tm.begin
      [] OTHER             -> 0

\* the calls with the times at which they are issued, from t0 on
RECURSIVE Timed(_, _, _)
Timed(calls, t0, tm) ==
    IF calls = <<>> THEN <<>>
    ELSE <<[Head(calls) EXCEPT !.t = t0]>>
         \o Timed(Tail(calls), t0 + Dur(Head(calls), tm), tm)

\* the ms the calls take together
RECURSIVE TimeOf(_, _)
TimeOf(calls, tm) ==
    IF calls = <<>> THEN 0 ELSE Dur(Head(calls), tm) + TimeOf(Tail(calls), tm)

RECURSIVE CountOp(_, _)
CountOp(calls, op) ==
    IF calls = <<>> THEN 0
    ELSE (IF Head(calls).op = op THEN 1 ELSE 0) + CountOp(Tail(calls), op)

----------------------------------------------------------------------------
(* The display *)

\* display.drawString(x, y, text)
Draw(x, y, text) == <<x, y, text>>

\* pixel width of one character in the font set by drawWrappedString
CharWidth(c) == IF c = " " THEN 4 ELSE 9

\* display.getStringWidth(line)
RECURSIVE GetStringWidth(_)
GetStringWidth(line) ==
    IF line = <<>> THEN 0 ELSE CharWidth(Head(line)) + GetStringWidth(Tail(line))

\* the for loop starting the new line empty, without the character that overflowed
RECURSIVE WrapFrom_DropChar(_, _, _, _, _, _, _)
WrapFrom_DropChar(msg, i, line, x, lineY, lineHeight, maxWidth) ==
    IF i > Len(msg)
    THEN IF Len(line) > 0 THEN <<Draw(x, lineY, line)>> ELSE <<>>
    ELSE LET grown == Append(line, msg[i])
         IN  IF GetStringWidth(grown) > maxWidth
             THEN <<Draw(x, lineY, SubSeq(grown, 1, Len(grown) - 1))>>
                  \o WrapFrom_DropChar(msg, i + 1, <<>>, x, lineY + lineHeight,
                                       lineHeight, maxWidth)
             ELSE WrapFrom_DropChar(msg, i + 1, grown, x, lineY, lineHeight, maxWidth)

\* the for loop of drawWrappedString from index i on, and the final drawString
RECURSIVE WrapFrom(_, _, _, _, _, _, _)
WrapFrom(msg, i, line, x, lineY, lineHeight, maxWidth) ==
    IF i > Len(msg)
    THEN IF Len(line) > 0 THEN <<Draw(x, lineY, line)>> ELSE <<>>
    ELSE LET grown == Append(line, msg[i])
         IN  IF GetStringWidth(grown) > maxWidth
             THEN <<Draw(x, lineY, SubSeq(grown, 1, Len(grown) - 1))>>
                  \o WrapFrom(msg, i + 1, <<msg[i]>>, x, lineY + lineHeight,
                              lineHeight, maxWidth)
             ELSE WrapFrom(msg, i + 1, grown, x, lineY, lineHeight, maxWidth)

\* drawWrappedString(display, msg, x, y, lineHeight, maxWidth): the drawString calls
drawWrappedString(msg, x, y, lineHeight, maxWidth) ==
    WrapFrom(msg, 1, <<>>, x, y, lineHeight, maxWidth)

----------------------------------------------------------------------------
(* The bridge sketch *)

IdleInterval == 1000

\* setup() whose failure branch returns instead of spinning
BridgeSetupCalls_NoHalt(r) ==
    <<E_delay(100),
      E_display(<<Draw(0, 0, S_LoRaBridge), Draw(0, 16, S_Init)>>),
      E_begin(r)>>
    \o IF r = RADIOLIB_ERR_NONE
       THEN <<E_config("setSpreadingFactor", 9),
              E_config("setBandwidth", 125),
              E_config("setCodingRate", 5),
              E_config("setSyncWord", 52),
              E_startReceive,
              E_display(<<Draw(0, 0, S_LoRaBridge), Draw(0, 16, S_Ready),
                          Draw(0, 32, S_Waiting)>>)>>
       ELSE <<E_display(<<Draw(0, 0, S_LoRaBridge), Draw(0, 16, S_Failed)>>)>>

\* setup() that does not arm the receiver
BridgeSetupCalls_NoArm(r) ==
    <<E_delay(100),
      E_display(<<Draw(0, 0, S_LoRaBridge), Draw(0, 16, S_Init)>>),
      E_begin(r)>>
    \o IF r = RADIOLIB_ERR_NONE
       THEN <<E_config("setSpreadingFactor", 9),
              E_config("setBandwidth", 125),
              E_config("setCodingRate", 5),
              E_config("setSyncWord", 52),
              E_display(<<Draw(0, 0, S_LoRaBridge), Draw(0, 16, S_Ready),
                          Draw(0, 32, S_Waiting)>>)>>
       ELSE <<E_display(<<Draw(0, 0, S_LoRaBridge), Draw(0, 16, S_Failed)>>),
              E_halt>>

\* setup(): the calls it makes when lora.begin returns r
BridgeSetupCalls(r) ==
    <<E_delay(100),
      E_display(<<Draw(0, 0, S_LoRaBridge), Draw(0, 16, S_Init)>>),
      E_begin(r)>>
    \o IF r = RADIOLIB_ERR_NONE
       THEN <<E_config("setSpreadingFactor", 9),
              E_config("setBandwidth", 125),
              E_config("setCodingRate", 5),
              E_config("setSyncWord", 52),
              E_startReceive,
              E_display(<<Draw(0, 0, S_LoRaBridge), Draw(0, 16, S_Ready),
                          Draw(0, 32, S_Waiting)>>)>>
       ELSE <<E_display(<<Draw(0, 0, S_LoRaBridge), Draw(0, 16, S_Failed)>>),
              E_halt>>

\* the transmit path with one retry of a failed transmit
BridgeTransmit_Retry(msg, txState) ==
    <<E_standby, E_delay(5), E_transmit(msg, txState)>>
    \o (IF txState = RADIOLIB_ERR_NONE
        THEN <<E_display(<<Draw(0, 0, S_TxOk)>> \o drawWrappedString(msg, 0, 16, 16, 128)),
               E_delay(100)>>
        ELSE <<E_standby, E_delay(5), E_transmit(msg, txState)>>)
    \o <<E_startReceive>>

\* the transmit path with startReceive inside the success branch
BridgeTransmit_RearmOnSuccessOnly(msg, txState) ==
    <<E_standby, E_delay(5), E_transmit(msg, txState)>>
    \o (IF txState = RADIOLIB_ERR_NONE
        THEN <<E_display(<<Draw(0, 0, S_TxOk)>> \o drawWrappedString(msg, 0, 16, 16, 128)),
               E_delay(100),
               E_startReceive>>
        ELSE <<>>)

\* the transmit path without lora.standby()
BridgeTransmit_NoStandby(msg, txState) ==
    <<E_delay(5), E_transmit(msg, txState)>>
    \o (IF txState = RADIOLIB_ERR_NONE
        THEN <<E_display(<<Draw(0, 0, S_TxOk)>> \o drawWrappedString(msg, 0, 16, 16, 128)),
               E_delay(100)>>
        ELSE <<>>)
    \o <<E_startReceive>>

\* loop(), the body of if (outgoingMessage.length() > 0)
BridgeTransmit(msg, txState) ==
    <<E_standby, E_delay(5), E_transmit(msg, txState)>>
    \o (IF txState = RADIOLIB_ERR_NONE
        THEN <<E_display(<<Draw(0, 0, S_TxOk)>> \o drawWrappedString(msg, 0, 16, 16, 128)),
               E_delay(100)>>
        ELSE <<>>)
    \o <<E_startReceive>>

\* the serial step testing the length of the line before it is trimmed
BridgeSerialToRadio_UntrimmedCheck(buf, waited, txState) ==
    IF buf # <<>>
    THEN LET raw == ReadStringUntil(buf, waited).line
             outgoingMessage == Trim(raw)
         IN  <<E_read(raw, ReadStringUntil(buf, waited).wait)>>
             \o IF Len(raw) > 0
                THEN BridgeTransmit(outgoingMessage, txState)
                ELSE <<>>
    ELSE <<>>

\* the serial step that reads a line and leaves out a transmit that would fail
BridgeSerialToRadio_DropOnFailure(buf, waited, txState) ==
    IF buf # <<>>
    THEN LET raw == ReadStringUntil(buf, waited).line
             outgoingMessage == Trim(raw)
         IN  <<E_read(raw, ReadStringUntil(buf, waited).wait)>>
             \o IF Len(outgoingMessage) > 0 /\ txState = RADIOLIB_ERR_NONE
                THEN BridgeTransmit(outgoingMessage, txState)
                ELSE <<>>
    ELSE <<>>

\* loop(), "Check for incoming serial data from Pi"
BridgeSerialToRadio(buf, waited, txState) ==
    IF buf # <<>>
    THEN LET raw == ReadStringUntil(buf, waited).line
             outgoingMessage == Trim(raw)
         IN  <<E_read(raw, ReadStringUntil(buf, waited).wait)>>
             \o IF Len(outgoingMessage) > 0
                THEN BridgeTransmit(outgoingMessage, txState)
                ELSE <<>>
    ELSE <<>>

\* the radio step without the test for RADIOLIB_ERR_RX_TIMEOUT
BridgeRadioToSerial_TimeoutAsError(rxState, incomingMessage) ==
    <<E_receive(incomingMessage, rxState)>>
    \o IF rxState = RADIOLIB_ERR_NONE
       THEN <<E_print(Println(incomingMessage)),
              E_display(<<Draw(0, 0, S_RxOk)>>
                        \o drawWrappedString(incomingMessage, 0, 16, 16, 128)),
              E_delay(100)>>
       ELSE <<E_display(<<Draw(0, 0, S_RxError), Draw(0, 16, IntToStr(rxState))>>),
              E_delay(100)>>

\* the radio step writing the responder's "[RX OK] " tag before the message
BridgeRadioToSerial_Tagged(rxState, incomingMessage) ==
    <<E_receive(incomingMessage, rxState)>>
    \o IF rxState = RADIOLIB_ERR_NONE
       THEN <<E_print(Println(S_TagRxOk \o incomingMessage)),
              E_display(<<Draw(0, 0, S_RxOk)>>
                        \o drawWrappedString(incomingMessage, 0, 16, 16, 128)),
              E_delay(100)>>
       ELSE IF rxState # RADIOLIB_ERR_RX_TIMEOUT
       THEN <<E_display(<<Draw(0, 0, S_RxError), Draw(0, 16, IntToStr(rxState))>>),
              E_delay(100)>>
       ELSE <<>>

\* the radio step showing "RX Error" without the code, as the responder does
BridgeRadioToSerial_NoCode(rxState, incomingMessage) ==
    <<E_receive(incomingMessage, rxState)>>
    \o IF rxState = RADIOLIB_ERR_NONE
       THEN <<E_print(Println(incomingMessage)),
              E_display(<<Draw(0, 0, S_RxOk)>>
                        \o drawWrappedString(incomingMessage, 0, 16, 16, 128)),
              E_delay(100)>>
       ELSE IF rxState # RADIOLIB_ERR_RX_TIMEOUT
       THEN <<E_display(<<Draw(0, 0, S_RxError)>>),
              E_delay(100)>>
       ELSE <<>>

\* loop(), "Check for incoming LoRa messages"
BridgeRadioToSerial(rxState, incomingMessage) ==
    <<E_receive(incomingMessage, rxState)>>
    \o IF rxState = RADIOLIB_ERR_NONE
       THEN <<E_print(Println(incomingMessage)),
              E_display(<<Draw(0, 0, S_RxOk)>>
                        \o drawWrappedString(incomingMessage, 0, 16, 16, 128)),
              E_delay(100)>>
       ELSE IF rxState # RADIOLIB_ERR_RX_TIMEOUT
       THEN <<E_display(<<Draw(0, 0, S_RxError), Draw(0, 16, IntToStr(rxState))>>),
              E_delay(100)>>
       ELSE <<>>

\* loop(), the waiting status; elapsed is millis() - lastActivity
BridgeHeartbeat(elapsed) ==
    IF U32Gt(elapsed, IdleInterval)
    THEN <<E_display(<<Draw(0, 0, S_LoRaBridge), Draw(0, 16, S_Ready),
                       Draw(0, 32, S_Listening)>>)>>
    ELSE <<>>

\* loop() with the radio step ahead of the serial step
BridgeLoopCalls_RadioFirst(buf, waited, txState, rxState, incomingMessage) ==
    BridgeRadioToSerial(rxState, incomingMessage) \o BridgeSerialToRadio(buf, waited, txState)

\* loop() with the radio step skipped once a line has been transmitted
BridgeLoopCalls_SkipPoll(buf, waited, txState, rxState, incomingMessage) ==
    LET serial == BridgeSerialToRadio(buf, waited, txState)
    IN  IF CountOp(serial, "transmit") > 0
        THEN serial
        ELSE serial \o BridgeRadioToSerial(rxState, incomingMessage)

\* loop() up to the waiting status: the serial step, then the radio step
BridgeLoopCalls(buf, waited, txState, rxState, incomingMessage) ==
    BridgeSerialToRadio(buf, waited, txState) \o BridgeRadioToSerial(rxState, incomingMessage)

\* what one lora.receive(String&) can return: the code, and the String it
\* leaves in its argument (written only on success)
RxResults ==
    {[state |-> RADIOLIB_ERR_NONE, str |-> p] : p \in Payloads}
    \cup {[state |-> c, str |-> <<>>] : c \in RxStates \ {RADIOLIB_ERR_NONE}}

\* whether loop() run on buf reaches lora.transmit
WillTransmit(buf) == buf # <<>> /\ Trim(ReadStringUntil(buf, 0).line) # <<>>

\* the longest payload the transceiver sends in one packet; the radio library
\* refuses a longer one with RADIOLIB_ERR_PACKET_TOO_LONG
MaxPacketLength == 255

RADIOLIB_ERR_PACKET_TOO_LONG == -4

\* what lora.transmit can return in a loop() run on buf
TxResults(buf) ==
    IF WillTransmit(buf)
    THEN IF Len(Trim(ReadStringUntil(buf, 0).line)) > MaxPacketLength
         THEN {RADIOLIB_ERR_PACKET_TOO_LONG}
         ELSE TxStates
    ELSE {RADIOLIB_ERR_NONE}

\* s holds a character that is not whitespace
HasText(s) == \E i \in 1..Len(s) : ~IsSpace(s[i])

\* lines read by the calls whose trimmed form is non-empty
RECURSIVE CountLines(_)
CountLines(calls) ==
    IF calls = <<>> THEN 0
    ELSE (IF Head(calls).op = "read" /\ HasText(Head(calls).s) THEN 1 ELSE 0)
         + CountLines(Tail(calls))

RECURSIVE CountPollOk(_)
CountPollOk(calls) ==
    IF calls = <<>> THEN 0
    ELSE (IF Head(calls).op = "receive" /\ Head(calls).n = RADIOLIB_ERR_NONE THEN 1 ELSE 0)
         + CountPollOk(Tail(calls))

\* what every handler run does with the calls it made
Record(calls) ==
    /\ ev' = Stamp(mode, calls)
    /\ mode' = ModeAfter(mode, calls)
    /\ nTx' = nTx + CountOp(calls, "transmit")
    /\ nLines' = nLines + CountLines(calls)
    /\ nWrites' = nWrites + CountOp(calls, "print")
    /\ nPollOk' = nPollOk + CountPollOk(calls)

\* the bytes the UART receives while a handler runs: mid while its read waits,
\* which the read takes, and inc after the read (in the delays and the blocking
\* calls), which join the receive buffer behind what the read left there
Arrive(rest, mid, inc, track) ==
    /\ rxbuf' = rest \o inc
    /\ fed' = fed + Len(mid) + Len(inc)
    /\ arrived' = IF track THEN arrived \o mid \o inc ELSE arrived

\* the writes of W the host can still make when room bytes are left of what it
\* writes in one run; lax: a write that starts within the room may go over it
Fit(W, room, lax) == {a \in W : room > 0 /\ (lax \/ Len(a) <= room)}

\* ms from the start of a waiting read, or from the byte before, to the next
\* write of the host, below the timeout
ReadGaps == {500}

\* what can come while readStringUntil waits on buf: nothing, or writes of the
\* host, each within the timeout of the one before, as long as the read has bytes
\* and no terminator. bytes is what came, waited the ms up to the last of them
RECURSIVE ReadWaits(_, _, _, _)
ReadWaits(buf, W, room, lax) ==
    {[bytes |-> <<>>, waited |-> 0]}
    \cup IF buf = <<>> \/ FindTerminator(buf, 1) # 0 THEN {}
         ELSE UNION {{[bytes |-> a \o m.bytes, waited |-> g + m.waited] :
                         m \in ReadWaits(buf \o a, W, room - Len(a), lax)} :
                     a \in Fit(W, room, lax), g \in ReadGaps}

\* one write of the host to the UART of the bridge
ByteWrites == {<<c>> : c \in Bytes}

\* what the host may write while one handler runs, after its read
Arrivals(room) == {<<>>} \cup Fit(ByteWrites, room, FALSE)

\* ms taken by lora.receive, lora.transmit, display.display() and lora.begin in
\* one run of loop(), and in setup()
Timings      == {Tm(d, 60, 20, 0) : d \in Elapse}
SetupTimings == {Tm(0, 0, 20, 30)}

\* setup(), with the host writing Inc while it runs (Serial.begin comes first)
BridgeSetupOn(Inc, track) ==
    /\ sketch = "bridge" /\ pc = "setup"
    /\ \E r \in BeginStates, tm \in SetupTimings, inc \in Inc :
         \E calls \in {BridgeSetupCalls(r)} :
             /\ Record(Timed(calls, 0, tm))
             /\ pc' = IF CountOp(calls, "halt") > 0 THEN "halted" ELSE "loop"
             /\ now' = U32Add(now, TimeOf(calls, tm))
             /\ Arrive(rxbuf, <<>>, inc, track)
    /\ UNCHANGED <<wrap, sent, sketch, iters, lastActivity>>

BridgeSetup == BridgeSetupOn(Arrivals(MaxBytes - fed), FALSE)

\* one iteration of loop(): t is the value millis() returns at the waiting-status
\* test, after the calls of the iteration; lastActivity is written by the waiting
\* status alone, from a second millis() taken after its frame is shown. now is
\* the last value millis() returned
BridgeLoop ==
    /\ sketch = "bridge" /\ pc = "loop" /\ iters < MaxIters
    /\ \E mid \in ReadWaits(rxbuf, ByteWrites, MaxBytes - fed, FALSE) :
       \E txState \in TxResults(rxbuf \o mid.bytes), rx \in RxResults, tm \in Timings,
          inc \in Arrivals(MaxBytes - fed - Len(mid.bytes)) :
         LET buf   == rxbuf \o mid.bytes
             calls == BridgeLoopCalls(buf, mid.waited, txState, rx.state, rx.str)
             t     == U32Add(now, TimeOf(calls, tm))
             beat  == BridgeHeartbeat(U32Sub(t, lastActivity))
             end   == U32Add(t, TimeOf(beat, tm))
         IN  /\ Record(Timed(calls \o beat, 0, tm))
             /\ Arrive(IF CountOp(calls, "read") > 0
                       THEN ReadStringUntil(buf, mid.waited).rest ELSE rxbuf,
                       mid.bytes, inc, FALSE)
             /\ now' = end
             /\ lastActivity' = IF beat # <<>> THEN end ELSE lastActivity
    /\ iters' = iters + 1
    /\ UNCHANGED <<wrap, sent, sketch, pc>>

----------------------------------------------------------------------------
(* The responder sketch *)

ResponderSetupCalls(r) ==
    <<E_delay(100),
      E_display(<<Draw(0, 0, S_RxInit)>>),
      E_begin(r)>>
    \o IF r = RADIOLIB_ERR_NONE
       THEN <<E_config("setSpreadingFactor", 9),
              E_display(<<Draw(0, 0, S_RxInit), Draw(0, 20, S_LoRaReady)>>)>>
       ELSE <<E_display(<<Draw(0, 0, S_RxInit), Draw(0, 20, S_LoRaFail)>>),
              E_halt>>

\* the reply that returns to receive mode only after a transmit that succeeded
ResponderReply_RearmOnSuccessOnly(txState) ==
    <<E_standby, E_delay(10), E_transmit(S_Hello, txState)>>
    \o (IF txState = RADIOLIB_ERR_NONE
        THEN <<E_print(Println(S_TagTxOk \o S_Hello)), E_delay(10), E_startReceive>>
        ELSE <<E_print(S_TagTxFail), E_print(Println(IntToStr(txState)))>>)

\* loop(), "Pause and send response" up to "Return to receive mode"; the frame
\* is the one shown by the display.display() that ends loop()
ResponderReply(txState) ==
    <<E_standby, E_delay(10), E_transmit(S_Hello, txState)>>
    \o (IF txState = RADIOLIB_ERR_NONE
        THEN <<E_print(Println(S_TagTxOk \o S_Hello))>>
        ELSE <<E_print(S_TagTxFail), E_print(Println(IntToStr(txState)))>>)
    \o <<E_delay(10), E_startReceive>>

ResponderLoopCalls(state, incoming, txState) ==
    <<E_receive(incoming, state)>>
    \o IF state = RADIOLIB_ERR_NONE
       THEN <<E_print(Println(S_TagRxOk \o incoming))>>
            \o ResponderReply(txState)
            \o <<E_display(<<Draw(0, 0, S_RxOkColon)>>
                           \o drawWrappedString(incoming, 0, 20, 16, 128)
                           \o <<Draw(0, 48, IF txState = RADIOLIB_ERR_NONE
                                            THEN S_ReplySent ELSE S_ReplyFail)>>)>>
       ELSE IF state # RADIOLIB_ERR_RX_TIMEOUT
       THEN <<E_print(S_TagRxFail), E_print(Println(IntToStr(state))),
              E_display(<<Draw(0, 0, S_RxError)>>)>>
       ELSE <<E_display(<<Draw(0, 0, S_Waiting)>>)>>

ResponderSetup ==
    /\ sketch = "responder" /\ pc = "setup"
    /\ \E r \in BeginStates, tm \in SetupTimings :
         LET calls == ResponderSetupCalls(r)
         IN  /\ Record(Timed(calls, 0, tm))
             /\ pc' = IF CountOp(calls, "halt") > 0 THEN "halted" ELSE "loop"
             /\ now' = U32Add(now, TimeOf(calls, tm))
    /\ UNCHANGED <<wrap, arrived, sent, sketch, rxbuf, fed, iters, lastActivity>>

\* millis() is never read by this sketch: now is left as it is
ResponderLoop ==
    /\ sketch = "responder" /\ pc = "loop" /\ iters < MaxIters
    /\ \E rx \in RxResults, tm \in Timings :
       \E txState \in (IF rx.state = RADIOLIB_ERR_NONE THEN TxStates
                        ELSE {RADIOLIB_ERR_NONE}) :
         Record(Timed(ResponderLoopCalls(rx.state, rx.str, txState), 0, tm))
    /\ iters' = iters + 1
    /\ UNCHANGED <<wrap, arrived, sent, sketch, pc, rxbuf, fed, now, lastActivity>>

----------------------------------------------------------------------------
(* The environment, and the whole system *)

\* the host writes one byte to the UART of the bridge; the responder never reads
\* its UART. This is a write between two handler runs
HostFeed ==
    /\ sketch = "bridge" /\ pc # "setup" /\ fed < MaxBytes
    /\ \E c \in Bytes : rxbuf' = Append(rxbuf, c)
    /\ fed' = fed + 1
    /\ UNCHANGED <<wrap, arrived, sent, sketch, pc, mode, iters, now, lastActivity, ev,
                   nTx, nLines, nWrites, nPollOk>>

\* n times the character c
Rep(c, n) == [i \in 1..n |-> c]

\* lines over the packet limit, with and without leading whitespace
LongLines ==
    {pad \o Rep("a", n) : pad \in {<<>>, <<" ">>, <<VT>>},
                          n \in {MaxPacketLength + 1, MaxPacketLength + 2}}

\* the host writes one long line and its terminator to the UART
HostFeedLine ==
    /\ sketch = "bridge" /\ pc # "setup" /\ fed = 0
    /\ \E line \in LongLines :
         /\ rxbuf' = rxbuf \o line \o <<"\n">>
         /\ arrived' = arrived \o line \o <<"\n">>
         /\ fed' = fed + Len(line) + 1
    /\ UNCHANGED <<wrap, sent, sketch, pc, mode, iters, now, lastActivity, ev,
                   nTx, nLines, nWrites, nPollOk>>

\* while (true); of a failed setup
\* no call of drawWrappedString under observation
NoWrap == [msg |-> <<>>, x |-> 0, y |-> 0, lineHeight |-> 0, maxWidth |-> 0,
           drawn |-> <<>>, done |-> FALSE]

Halted ==
    /\ pc = "halted"
    /\ UNCHANGED vars

Init ==
    /\ sketch \in {"bridge", "responder"}
    /\ pc = "setup"
    /\ mode = "Uninitialized"
    /\ rxbuf = <<>>
    /\ fed = 0
    /\ iters = 0
    /\ now = U32(0, 0)
    /\ lastActivity = U32(0, 0)
    /\ ev = <<>>
    /\ nTx = 0 /\ nLines = 0 /\ nWrites = 0 /\ nPollOk = 0
    /\ wrap = NoWrap
    /\ arrived = <<>> /\ sent = <<>>

Next ==
    \/ BridgeSetup
    \/ BridgeLoop
    \/ ResponderSetup
    \/ ResponderLoop
    \/ HostFeed
    \/ Halted

Spec == Init /\ [][Next]_vars

(* The bridge fed lines over the packet limit *)

InitOversize == Init /\ sketch = "bridge"

NextOversize ==
    \/ BridgeSetup
    \/ BridgeLoop
    \/ HostFeedLine
    \/ Halted

SpecOversize == InitOversize /\ [][NextOversize]_vars

----------------------------------------------------------------------------
(* Vocabulary of the properties *)

\* positions of the calls named op in the log of the last handler run
Idx(op) == {i \in 1..Len(ev) : ev[i].op = op}

\* the log is that of a bridge loop() iteration
BridgeIteration == sketch = "bridge" /\ iters > 0

AllSpace(s) == \A i \in 1..Len(s) : IsSpace(s[i])

\* L is raw without its leading and trailing whitespace, and nothing else changed
IsTrimOf(L, raw) ==
    \E i \in 0..Len(raw) : \E j \in i..Len(raw) :
        /\ L = SubSeq(raw, i + 1, j)
        /\ AllSpace(SubSeq(raw, 1, i))
        /\ AllSpace(SubSeq(raw, j + 1, Len(raw)))
        /\ (L # <<>> => ~IsSpace(L[1]) /\ ~IsSpace(L[Len(L)]))

\* the title (first string drawn) of the frame shown by call e
Title(e) == IF e.frame = <<>> THEN <<>> ELSE e.frame[1][3]

IsFrame(e, title) == e.op = "display" /\ Title(e) = title

Frames(title) == {i \in Idx("display") : Title(ev[i]) = title}

IsIdleFrame(e) ==
    /\ e.op = "display"
    /\ Len(e.frame) = 3
    /\ e.frame[3][3] = S_Listening

DigitValue(c) == CASE c = "0" -> 0 [] c = "1" -> 1 [] c = "2" -> 2 [] c = "3" -> 3
                   [] c = "4" -> 4 [] c = "5" -> 5 [] c = "6" -> 6 [] c = "7" -> 7
                   [] c = "8" -> 8 [] c = "9" -> 9 [] OTHER -> -1

AllDigits(s) == s # <<>> /\ \A i \in 1..Len(s) : DigitValue(s[i]) >= 0

RECURSIVE DecimalValue(_)
DecimalValue(s) ==
    IF s = <<>> THEN 0
    ELSE 10 * DecimalValue(SubSeq(s, 1, Len(s) - 1)) + DigitValue(s[Len(s)])

\* s is the decimal numeral of the integer n
IsDecimalOf(s, n) ==
    IF n < 0
    THEN s # <<>> /\ Head(s) = "-" /\ AllDigits(Tail(s)) /\ DecimalValue(Tail(s)) = -n
    ELSE AllDigits(s) /\ DecimalValue(s) = n

(* The bridge running without end: the host writes whole lines, LiveBytes
   bytes at most, and the radio delivers MaxDatagrams datagrams at most, so that
   the counters stay finite; transmit failures, receive errors and timeouts are
   unlimited. The sketch uses millis() only in millis() - lastActivity, so the
   clock is kept relative to lastActivity. loop() is called again and again by
   the Arduino core, which is the fairness of LiveSpec. *)

LiveBytes == 5
MaxDatagrams == 1

LiveLines == {<<"a">>, <<VT>>, <<"b", " ">>}

\* the payloads of the lora.transmit calls among calls, in order
RECURSIVE TxPayloads(_)
TxPayloads(calls) ==
    IF calls = <<>> THEN <<>>
    ELSE (IF Head(calls).op = "transmit" THEN <<Head(calls).s>> ELSE <<>>)
         \o TxPayloads(Tail(calls))
LiveElapse == {600}

\* ms taken by the blocking calls of one iteration
LiveTimings == {Tm(d, 0, 0, 0) : d \in LiveElapse}

HostFeedLive ==
    /\ sketch = "bridge" /\ pc # "setup"
    /\ \E line \in LiveLines :
         /\ fed + Len(line) + 1 <= LiveBytes
         /\ rxbuf' = rxbuf \o line \o <<"\n">>
         /\ arrived' = arrived \o line \o <<"\n">>
         /\ fed' = fed + Len(line) + 1
    /\ UNCHANGED <<wrap, sent, sketch, pc, mode, iters, now, lastActivity, ev,
                   nTx, nLines, nWrites, nPollOk>>

\* one write of the host: a whole line
LineWrites == {line \o <<"\n">> : line \in LiveLines}

\* what the host may write while one handler runs, after its read
LiveArrivals(room) == {<<>>} \cup Fit(LineWrites, room, FALSE)

BridgeSetupLive == BridgeSetupOn(LiveArrivals(LiveBytes - fed), TRUE)

LiveRxResults ==
    IF nPollOk < MaxDatagrams THEN RxResults
    ELSE {r \in RxResults : r.state # RADIOLIB_ERR_NONE}

\* loop() with no bound on the iterations: the clock is kept as the ms since
\* lastActivity was written, and iters goes round
BridgeLoopLive ==
    /\ sketch = "bridge" /\ pc = "loop"
    /\ \E mid \in ReadWaits(rxbuf, LineWrites, LiveBytes - fed, FALSE) :
       \E buf \in {rxbuf \o mid.bytes} :
       \E txState \in TxResults(buf), rx \in LiveRxResults, tm \in LiveTimings,
          inc \in LiveArrivals(LiveBytes - fed - Len(mid.bytes)) :
         \E calls \in {BridgeLoopCalls(buf, mid.waited, txState, rx.state, rx.str)} :
         \E t \in {U32Add(now, TimeOf(calls, tm))} :
         \E beat \in {BridgeHeartbeat(U32Sub(t, lastActivity))} :
         \E end \in {U32Add(t, TimeOf(beat, tm))} :
         \E log \in {Timed(calls \o beat, 0, tm)} :
             /\ Record(log)
             /\ Arrive(IF CountOp(calls, "read") > 0
                       THEN ReadStringUntil(buf, mid.waited).rest ELSE rxbuf,
                       mid.bytes, inc, TRUE)
             /\ now' = U32Sub(end, IF beat # <<>> THEN end ELSE lastActivity)
             /\ lastActivity' = U32(0, 0)
             /\ sent' = sent \o TxPayloads(calls)
    /\ iters' = IF iters < MaxIters THEN iters + 1 ELSE 1
    /\ UNCHANGED <<wrap, sketch, pc>>

InitLive == Init /\ sketch = "bridge"

NextLive ==
    \/ BridgeSetupLive
    \/ BridgeLoopLive
    \/ HostFeedLive
    \/ Halted

LiveSpec == InitLive /\ [][NextLive]_vars /\ WF_vars(BridgeLoopLive)

\* the same steps, for the properties that need no fairness
SpecLines == InitLive /\ [][NextLive]_vars

(* drawWrappedString called on its own: every message over WrapChars up to
   MaxWrapLen characters, at widths below, at and above the character widths *)

MaxWrapLen == 4

WrapChars  == {"a", " "}
WrapWidths == {3, 4, 9, 13, 18, 22, 128}
WrapOrigins == {[x |-> 0, y |-> 16, lineHeight |-> 16],
                [x |-> 2, y |-> 0, lineHeight |-> 10]}

\* the sequences over S of length n
SeqsOfLen(S, n) == [1..n -> S]

WrapCalls ==
    {[msg |-> m, x |-> o.x, y |-> o.y, lineHeight |-> o.lineHeight, maxWidth |-> w,
      drawn |-> <<>>, done |-> FALSE] :
        m \in UNION {SeqsOfLen(WrapChars, n) : n \in 0..MaxWrapLen},
        o \in WrapOrigins, w \in WrapWidths}

CallWrap ==
    /\ ~wrap.done /\ wrap # NoWrap
    /\ wrap' = [wrap EXCEPT
                  !.drawn = drawWrappedString(wrap.msg, wrap.x, wrap.y,
                                              wrap.lineHeight, wrap.maxWidth),
                  !.done = TRUE]
    /\ UNCHANGED <<arrived, sent, sketch, pc, mode, rxbuf, fed, iters, now,
                   lastActivity, ev, nTx, nLines, nWrites, nPollOk>>

WrapReturned ==
    /\ wrap.done
    /\ UNCHANGED vars

InitWrap ==
    /\ sketch = "bridge" /\ pc = "loop" /\ mode = "Receiving"
    /\ rxbuf = <<>> /\ fed = 0 /\ iters = 0
    /\ now = U32(0, 0) /\ lastActivity = U32(0, 0)
    /\ ev = <<>>
    /\ nTx = 0 /\ nLines = 0 /\ nWrites = 0 /\ nPollOk = 0
    /\ wrap \in WrapCalls
    /\ arrived = <<>> /\ sent = <<>>

NextWrap == CallWrap \/ WrapReturned

SpecWrap == InitWrap /\ [][NextWrap]_vars

(* The bridge loop about 49.7 days after the start, where millis() goes from
   2^32 - 1 round to 0: millis() is k ms short of 2^32 and lastActivity was
   written e ms before *)

WrapStarts ==
    {[k |-> k, e |-> e] : k \in {1, 150, 900, 1400}, e \in {0, 400, 999, 1000}}

InitWrapAround ==
    /\ sketch = "bridge" /\ pc = "loop" /\ mode = "Receiving"
    /\ rxbuf = <<>> /\ fed = MaxBytes /\ iters = 0
    /\ \E s \in WrapStarts :
         /\ now = U32(Half - 1, Half - s.k)
         /\ lastActivity = U32(Half - 1, Half - s.k - s.e)
    /\ ev = <<>>
    /\ nTx = 0 /\ nLines = 0 /\ nWrites = 0 /\ nPollOk = 0
    /\ wrap = NoWrap
    /\ arrived = <<>> /\ sent = <<>>

\* the host is silent: the test reads millis() and lastActivity alone
NextWrapAround == BridgeLoop

SpecWrapAround == InitWrapAround /\ [][NextWrapAround]_vars

----------------------------------------------------------------------------
(* The echo sketch (serial_test): Serial2 to the host, the display, no radio *)

S_PiOnlyTest   == <<"P","i"," ","O","n","l","y"," ","T","e","s","t">>
S_NoUsbSerial  == <<"N","o"," ","U","S","B"," ","S","e","r","i","a","l">>
S_ReadyBang    == <<"R","e","a","d","y","!">>
S_FromPi       == <<"F","R","O","M"," ","P","I",":">>
S_EchoingBack  == <<"E","c","h","o","i","n","g"," ","b","a","c","k",".",".",".">>
S_Echo         == <<"E","C","H","O",":"," ">>
S_WaitingFor   == <<"W","a","i","t","i","n","g"," ","f","o","r">>
S_PiMessages   == <<"P","i"," ","m","e","s","s","a","g","e","s">>
S_OnSerial2    == <<"o","n"," ","S","e","r","i","a","l","2",".",".",".">>

StatusInterval == 3000

\* String::substring(from, to): the characters from index from up to, not
\* including, index to, to cut down to the length
Substring(s, from, to) ==
    SubSeq(s, from + 1, IF to > Len(s) THEN Len(s) ELSE to)

\* setup()
EchoSetupCalls ==
    <<E_delay(100),
      E_display(<<Draw(0, 0, S_PiOnlyTest), Draw(0, 16, S_NoUsbSerial),
                  Draw(0, 32, S_ReadyBang)>>)>>

\* loop() echoing the line as it was read, untrimmed
EchoLoopCalls_Untrimmed(buf, waited) ==
    IF buf # <<>>
    THEN LET receivedData == ReadStringUntil(buf, waited).line
         IN  <<E_read(receivedData, ReadStringUntil(buf, waited).wait)>>
             \o IF Len(receivedData) > 0
                THEN <<E_display(<<Draw(0, 0, S_FromPi),
                                   Draw(0, 16, Substring(receivedData, 0, 10)),
                                   Draw(0, 32, S_EchoingBack)>>),
                       E_print(Println(S_Echo \o receivedData)),
                       E_delay(1000)>>
                ELSE <<>>
    ELSE <<>>

\* loop(), "Check for data from Pi (Serial2)"
EchoLoopCalls(buf, waited) ==
    IF buf # <<>>
    THEN LET raw == ReadStringUntil(buf, waited).line
             receivedData == Trim(raw)
         IN  <<E_read(raw, ReadStringUntil(buf, waited).wait)>>
             \o IF Len(receivedData) > 0
                THEN <<E_display(<<Draw(0, 0, S_FromPi),
                                   Draw(0, 16, Substring(receivedData, 0, 10)),
                                   Draw(0, 32, S_EchoingBack)>>),
                       E_print(Println(S_Echo \o receivedData)),
                       E_delay(1000)>>
                ELSE <<>>
    ELSE <<>>

\* loop(), "Show status every 3 seconds when idle"; elapsed is
\* millis() - lastStatusUpdate
EchoStatus(elapsed) ==
    IF U32Gt(elapsed, StatusInterval)
    THEN <<E_display(<<Draw(0, 0, S_WaitingFor), Draw(0, 16, S_PiMessages),
                       Draw(0, 32, S_OnSerial2)>>)>>
    ELSE <<>>

\* what the host writes at once: whole lines, one of them longer than the ten
\* characters shown, and text and a blank left without a terminator
EchoChunks ==
    {<<"a", "\n">>, <<" ", "\n">>, <<" ", "a", " ", "\n">>, <<VT, "a", VT, "\n">>,
     <<VT, "\n">>, Rep("a", 12) \o <<"\n">>, <<"a">>, <<" ">>}

\* what the host may write while one handler runs, after its read
EchoArrivals(room) == {<<>>} \cup Fit(EchoChunks, room, TRUE)

\* ms taken by display.display()
EchoTimings == {Tm(0, 0, 0, 0), Tm(0, 0, 20, 0)}

HostFeedEcho ==
    /\ sketch = "echo" /\ pc # "setup" /\ fed < MaxBytes
    /\ \E chunk \in EchoChunks :
         /\ rxbuf' = rxbuf \o chunk
         /\ fed' = fed + Len(chunk)
    /\ UNCHANGED <<wrap, arrived, sent, sketch, pc, mode, iters, now, lastActivity, ev,
                   nTx, nLines, nWrites, nPollOk>>

\* setup(), with the host writing while it runs (Serial2.begin comes first)
EchoSetup ==
    /\ sketch = "echo" /\ pc = "setup"
    /\ \E tm \in EchoTimings, inc \in EchoArrivals(MaxBytes - fed) :
         /\ Record(Timed(EchoSetupCalls, 0, tm))
         /\ now' = U32Add(now, TimeOf(EchoSetupCalls, tm))
         /\ Arrive(rxbuf, <<>>, inc, FALSE)
    /\ pc' = "loop"
    /\ UNCHANGED <<wrap, sent, sketch, iters, lastActivity>>

\* one iteration of loop(): t is the value millis() returns at the status test;
\* lastStatusUpdate, kept in lastActivity, is written from a second millis()
\* taken after the status frame is shown
EchoLoop ==
    /\ sketch = "echo" /\ pc = "loop" /\ iters < MaxIters
    /\ \E mid \in ReadWaits(rxbuf, EchoChunks, MaxBytes - fed, TRUE) :
       \E tm \in EchoTimings, inc \in EchoArrivals(MaxBytes - fed - Len(mid.bytes)) :
         LET buf    == rxbuf \o mid.bytes
             calls  == EchoLoopCalls(buf, mid.waited)
             t      == U32Add(now, TimeOf(calls, tm))
             status == EchoStatus(U32Sub(t, lastActivity))
             end    == U32Add(t, TimeOf(status, tm))
         IN  /\ Record(Timed(calls \o status, 0, tm))
             /\ Arrive(IF CountOp(calls, "read") > 0
                       THEN ReadStringUntil(buf, mid.waited).rest ELSE rxbuf,
                       mid.bytes, inc, FALSE)
             /\ now' = end
             /\ lastActivity' = IF status # <<>> THEN end ELSE lastActivity
    /\ iters' = iters + 1
    /\ UNCHANGED <<wrap, sent, sketch, pc>>

InitEcho ==
    /\ sketch = "echo" /\ pc = "setup" /\ mode = "Uninitialized"
    /\ rxbuf = <<>> /\ fed = 0 /\ iters = 0
    /\ now = U32(0, 0) /\ lastActivity = U32(0, 0)
    /\ ev = <<>>
    /\ nTx = 0 /\ nLines = 0 /\ nWrites = 0 /\ nPollOk = 0
    /\ wrap = NoWrap
    /\ arrived = <<>> /\ sent = <<>>

NextEcho == EchoSetup \/ EchoLoop \/ HostFeedEcho

SpecEcho == InitEcho /\ [][NextEcho]_vars

----------------------------------------------------------------------------
(* C1: in a bridge loop iteration, a line read from serial whose trimmed form L
   is non-empty causes exactly one lora.transmit call, and its payload is L; a
   failed transmit is not retried, so the total of transmit calls equals the
   total of non-empty lines read. *)
C1_OneTransmitPerLine ==
    BridgeIteration =>
        /\ \A i \in Idx("read") :
              HasText(ev[i].s) =>
                  /\ Cardinality(Idx("transmit")) = 1
                  /\ \A j \in Idx("transmit") : j > i /\ IsTrimOf(ev[j].s, ev[i].s)
        /\ nTx = nLines

\* two lines have been transmitted; the last had whitespace trimmed and failed
C1_Witness ==
    /\ BridgeIteration
    /\ nTx = 2
    /\ \E i \in Idx("read") : \E j \in Idx("transmit") :
          ev[j].s # ev[i].s /\ ev[j].n # RADIOLIB_ERR_NONE

(* C2: in the bridge, every lora.transmit, whatever it returns, is followed by
   lora.startReceive before the next poll or serial read; the mode commanded is
   Receiving at every poll, at every serial read and between iterations. *)
C2_RearmAfterTransmit ==
    (sketch = "bridge" /\ pc = "loop") =>
        /\ mode = "Receiving"
        /\ \A i \in Idx("transmit") :
              \E j \in Idx("startReceive") :
                  /\ j > i
                  /\ \A k \in (i + 1)..(j - 1) :
                        ev[k].op \notin {"receive", "read", "transmit", "standby"}
        /\ \A i \in Idx("receive") \cup Idx("read") : ev[i].m = "Receiving"

\* an iteration whose transmit failed and that went on to poll the radio
C2_Witness ==
    /\ BridgeIteration
    /\ \E i \in Idx("transmit") : \E j \in Idx("receive") :
          ev[i].n # RADIOLIB_ERR_NONE /\ j > i
    /\ mode = "Receiving"

(* C3: in both sketches every lora.transmit is directly preceded by
   lora.standby and then the settle delay, with no other call in between, and
   is never issued while the mode commanded is Receiving. *)
C3_StandbyBeforeTransmit ==
    \A i \in Idx("transmit") :
        /\ i >= 3
        /\ ev[i - 1].op = "delay" /\ ev[i - 1].n > 0
        /\ ev[i - 2].op = "standby"
        /\ ev[i].m = "Standby"

\* the responder has sent a reply
C3_Witness ==
    /\ sketch = "responder"
    /\ \E i \in Idx("transmit") : ev[i].s = S_Hello /\ ev[i].m = "Standby"

(* C4: in a bridge loop iteration, a line read from serial that is empty after
   trimming causes no standby, no transmit and no TX frame on the display, and
   the mode commanded stays Receiving throughout. *)
C4_BlankLineIgnored ==
    BridgeIteration =>
        \A i \in Idx("read") :
            ~HasText(ev[i].s) =>
                /\ Idx("standby") = {}
                /\ Idx("transmit") = {}
                /\ Idx("startReceive") = {}
                /\ Frames(S_TxOk) = {}
                /\ \A k \in 1..Len(ev) : ev[k].m = "Receiving"
                /\ mode = "Receiving"

\* a whitespace-only line has been read
C4_Witness ==
    /\ BridgeIteration
    /\ \E i \in Idx("read") : ev[i].s # <<>> /\ ~HasText(ev[i].s)

(* C5: in a bridge loop iteration whose poll returns RADIOLIB_ERR_RX_TIMEOUT
   there is no serial write and no RX frame (neither RX OK nor RX Error); a
   frame shown in that iteration is the TX OK frame of a successful transmit,
   before the poll, or the idle frame that ends the iteration. *)
C5_TimeoutIsSilent ==
    BridgeIteration =>
        \A i \in Idx("receive") :
            ev[i].n = RADIOLIB_ERR_RX_TIMEOUT =>
                /\ Idx("print") = {}
                /\ Frames(S_RxOk) = {} /\ Frames(S_RxError) = {}
                /\ \A j \in Idx("display") :
                      \/ /\ j < i
                         /\ Title(ev[j]) = S_TxOk
                         /\ \E k \in Idx("transmit") :
                               k < j /\ ev[k].n = RADIOLIB_ERR_NONE
                      \/ j = Len(ev) /\ j > i /\ IsIdleFrame(ev[j])

\* a timeout iteration that showed both a TX OK frame and the idle frame
C5_Witness ==
    /\ BridgeIteration
    /\ \E i \in Idx("receive") : ev[i].n = RADIOLIB_ERR_RX_TIMEOUT
    /\ Frames(S_TxOk) # {}
    /\ IsIdleFrame(ev[Len(ev)])

(* C6: in a bridge loop iteration whose poll returns RADIOLIB_ERR_NONE with the
   String bytes, there is exactly one serial write, it is bytes followed by
   the line terminator and nothing else, and exactly one RX OK frame is shown;
   the total of serial writes equals the total of successful polls. *)
C6_ReceivedIsForwarded ==
    sketch = "bridge" =>
        /\ \A i \in Idx("receive") :
              ev[i].n = RADIOLIB_ERR_NONE =>
                  /\ Cardinality(Idx("print")) = 1
                  /\ \A j \in Idx("print") :
                        j > i /\ ev[j].s = ev[i].s \o <<"\r", "\n">>
                  /\ Cardinality(Frames(S_RxOk)) = 1
        /\ nWrites = nPollOk

\* two datagrams have been forwarded, the last one starting with a space
C6_Witness ==
    /\ BridgeIteration
    /\ nPollOk = 2
    /\ \E i \in Idx("receive") :
          ev[i].n = RADIOLIB_ERR_NONE /\ ev[i].s # <<>> /\ IsSpace(ev[i].s[1])

(* C7: in a bridge loop iteration whose poll returns a code other than
   RADIOLIB_ERR_NONE and RADIOLIB_ERR_RX_TIMEOUT, exactly one RX Error frame
   is shown and it carries the decimal numeral of that code; there is no
   serial write and the bridge does not halt or enter Fault. *)
C7_ReceiveErrorIsReported ==
    BridgeIteration =>
        \A i \in Idx("receive") :
            ev[i].n \notin {RADIOLIB_ERR_NONE, RADIOLIB_ERR_RX_TIMEOUT} =>
                /\ Cardinality(Frames(S_RxError)) = 1
                /\ \A j \in Frames(S_RxError) :
                      /\ j > i
                      /\ Len(ev[j].frame) = 2
                      /\ IsDecimalOf(ev[j].frame[2][3], ev[i].n)
                /\ Idx("print") = {}
                /\ Idx("halt") = {}
                /\ pc = "loop" /\ mode # "Fault"

\* a poll has returned a negative error code
C7_Witness ==
    /\ BridgeIteration
    /\ \E i \in Idx("receive") :
          ev[i].n < 0 /\ ev[i].n # RADIOLIB_ERR_RX_TIMEOUT

\* the state of a halted system: it halted in setup, on a failed lora.begin,
\* after showing the failure, and has done nothing since
C8_FaultState ==
    /\ (mode = "Fault") <=> (pc = "halted")
    /\ (\E i \in Idx("begin") : ev[i].n # RADIOLIB_ERR_NONE) => pc = "halted"
    /\ pc = "halted" =>
          /\ \E i \in Idx("begin") : ev[i].n # RADIOLIB_ERR_NONE
          /\ ev[Len(ev)].op = "halt"
          /\ \A k \in 1..Len(ev) :
                ev[k].op \notin {"read", "print", "receive", "standby",
                                 "transmit", "startReceive"}
          /\ iters = 0 /\ nTx = 0 /\ nLines = 0 /\ nWrites = 0 /\ nPollOk = 0

\* a step of a halted system changes nothing but the bytes the host has queued,
\* and Fault is entered only by setup
C8_FaultStep ==
    /\ pc = "halted" =>
          /\ pc' = "halted"
          /\ UNCHANGED <<sketch, mode, iters, now, lastActivity, ev,
                         nTx, nLines, nWrites, nPollOk>>
          /\ Len(rxbuf') >= Len(rxbuf)
          /\ SubSeq(rxbuf', 1, Len(rxbuf)) = rxbuf
    /\ (mode' = "Fault" /\ mode # "Fault") => pc = "setup"

(* C8: a failed lora.begin in setup puts the system in Fault, where it stays
   for ever without any serial read or write, radio call or display update;
   Fault is entered only from a failed setup. *)
C8_FaultIsTerminal == []C8_FaultState /\ [][C8_FaultStep]_vars

\* the bridge has halted and the host has since written to the UART
C8_Witness ==
    /\ sketch = "bridge"
    /\ pc = "halted"
    /\ mode = "Fault"
    /\ fed > 0

(* C9: in a bridge loop iteration the serial step (read, standby, transmit,
   startReceive) comes before the poll, and the serial write of a received
   datagram after it: a line and a datagram ready together are served line
   first. *)
C9_SerialBeforeRadio ==
    BridgeIteration =>
        \A r \in Idx("receive") :
            /\ \A k \in Idx("read") \cup Idx("standby") \cup Idx("transmit")
                        \cup Idx("startReceive") : k < r
            /\ \A t \in Idx("transmit") :
                  \E a \in Idx("startReceive") : t < a /\ a < r
            /\ \A p \in Idx("print") : r < p

\* a line was transmitted and a datagram forwarded in the same iteration
C9_Witness ==
    /\ BridgeIteration
    /\ \E t \in Idx("transmit") : ev[t].n = RADIOLIB_ERR_NONE
    /\ \E r \in Idx("receive") : ev[r].n = RADIOLIB_ERR_NONE
    /\ Idx("print") # {}

(* C10, as claimed: in a bridge loop iteration that transmitted a serial line
   the radio is not polled and nothing is written to serial. *)
C10_Original ==
    BridgeIteration =>
        (Idx("transmit") # {} => Idx("receive") = {} /\ Idx("print") = {})

(* C10, amended: every bridge loop iteration polls the radio exactly once,
   after the serial step, whether or not a line was transmitted, and writes to
   serial exactly when that poll succeeds. *)
C10_PollEveryIteration ==
    BridgeIteration =>
        /\ Cardinality(Idx("receive")) = 1
        /\ \A r \in Idx("receive") :
              /\ \A t \in Idx("transmit") : t < r
              /\ Cardinality(Idx("print"))
                    = IF ev[r].n = RADIOLIB_ERR_NONE THEN 1 ELSE 0

\* a line was handed to transmit, which failed, and the same iteration
\* forwarded a datagram
C10_Witness ==
    /\ BridgeIteration
    /\ \E t \in Idx("transmit") : ev[t].n # RADIOLIB_ERR_NONE
    /\ \E r \in Idx("receive") : ev[r].n = RADIOLIB_ERR_NONE
    /\ \E p \in Idx("print") : p > 1

----------------------------------------------------------------------------
\* frames of the bridge that show a real event: TX OK, RX OK, RX Error
RealFrames == Frames(S_TxOk) \cup Frames(S_RxOk) \cup Frames(S_RxError)

IdleFrames == {i \in Idx("display") : IsIdleFrame(ev[i])}

(* C11, as claimed: the idle frame of the bridge is shown only when more than
   the idle interval has passed since the last real event (TX OK, RX OK,
   RX Error): no idle frame follows a real frame within 1000 ms. *)
C11_IdleOnlyAfterQuiet ==
    BridgeIteration =>
        \A i \in RealFrames : \A j \in IdleFrames :
            j > i => ev[j].t - ev[i].t > IdleInterval

(* C12, as claimed: every lora.transmit of the bridge loop is followed, before
   the poll, by exactly one report of its outcome: the TX OK frame when it
   returned RADIOLIB_ERR_NONE, a display frame or serial write reporting the
   failure when it returned an error. *)
C12_TxOutcomeReported ==
    BridgeIteration =>
        \A i \in Idx("transmit") :
            LET reports == {k \in Idx("display") \cup Idx("print") :
                               /\ k > i
                               /\ \A r \in Idx("receive") : k < r}
            IN  /\ Cardinality(reports) = 1
                /\ \A k \in reports :
                      (ev[i].n = RADIOLIB_ERR_NONE) <=> (Title(ev[k]) = S_TxOk)

(* C13, as claimed: a trimmed serial line longer than the packet limit is
   rejected with a reported error: it is not transmitted truncated, and a
   display frame or serial write reports the rejection. *)
C13_OversizeReported ==
    BridgeIteration =>
        \A i \in Idx("read") :
            Len(Trim(ev[i].s)) > MaxPacketLength =>
                /\ \A j \in Idx("transmit") :
                      ev[j].n = RADIOLIB_ERR_NONE => ev[j].s = Trim(ev[i].s)
                /\ \E k \in Idx("display") \cup Idx("print") :
                      /\ k > i
                      /\ \A r \in Idx("receive") : k < r
                      /\ Title(ev[k]) # S_TxOk

----------------------------------------------------------------------------
(* C14: the mode commanded by the bridge changes only by Uninitialized ->
   Receiving (startReceive in a successful setup), Uninitialized -> Fault
   (failed configure), Receiving -> Standby, Standby -> Transmitting and
   Transmitting -> Receiving; every loop iteration begins with startReceive
   having been the last mode command. lora.receive is a poll, not a mode
   command. *)

ModeCommands == {"standby", "transmit", "startReceive", "halt"}

\* the transitions the claim allows, as <<mode before, command, mode after>>
AllowedTransitions ==
    {<<"Uninitialized", "startReceive", "Receiving">>,
     <<"Uninitialized", "halt",         "Fault">>,
     <<"Receiving",     "standby",      "Standby">>,
     <<"Standby",       "transmit",     "Transmitting">>,
     <<"Transmitting",  "startReceive", "Receiving">>}

\* positions of the mode commands in the call log
CommandIdx == {i \in 1..Len(ev) : ev[i].op \in ModeCommands}

\* the mode the radio is commanded into after call i: the mode stamped on the
\* next call, or the current mode after the last call
ModeAfterIdx(i) == IF i < Len(ev) THEN ev[i + 1].m ELSE mode

C14_ModeTransitions ==
    sketch = "bridge" =>
        /\ \A i \in CommandIdx :
              <<ev[i].m, ev[i].op, ModeAfterIdx(i)>> \in AllowedTransitions
        /\ \A i \in 1..Len(ev) \ CommandIdx : ModeAfterIdx(i) = ev[i].m
        /\ pc = "setup" => mode = "Uninitialized"
        /\ pc = "halted" => mode = "Fault"
        /\ pc = "loop" =>
              /\ mode = "Receiving"
              /\ \A i \in CommandIdx :
                    (\A j \in CommandIdx : j <= i) => ev[i].op = "startReceive"
              /\ iters > 0 => ev[1].m = "Receiving"

\* an iteration that went Receiving -> Standby -> Transmitting -> Receiving
C14_Witness ==
    /\ BridgeIteration /\ iters = 2
    /\ \E i, j, k \in CommandIdx :
          /\ i < j /\ j < k
          /\ ev[i].op = "standby" /\ ev[i].m = "Receiving"
          /\ ev[j].op = "transmit" /\ ev[j].m = "Standby"
          /\ ev[k].op = "startReceive" /\ ev[k].m = "Transmitting"
    /\ mode = "Receiving"

----------------------------------------------------------------------------
(* C15: after a successful startup the bridge loop never halts, and under fair
   scheduling of loop iterations every complete non-empty line that has arrived
   on serial is eventually handed to lora.transmit and every datagram returned
   by a poll is eventually written to serial, whatever the transmit failures
   and receive errors in between. *)

\* the complete lines of buf, in order
RECURSIVE SplitLines(_)
SplitLines(buf) ==
    LET k == FindTerminator(buf, 1)
    IN  IF k = 0 THEN <<>>
        ELSE <<SubSeq(buf, 1, k - 1)>> \o SplitLines(SubSeq(buf, k + 1, Len(buf)))

\* the non-empty trimmed forms of the first n of lines, in order
RECURSIVE PayloadsOf(_, _)
PayloadsOf(lines, n) ==
    IF n = 0 THEN <<>>
    ELSE PayloadsOf(lines, n - 1)
         \o (IF Trim(lines[n]) # <<>> THEN <<Trim(lines[n])>> ELSE <<>>)

Running == sketch = "bridge" /\ pc = "loop"

\* every non-empty line that has arrived has been handed to transmit
AllSent == sent = PayloadsOf(SplitLines(arrived), Len(SplitLines(arrived)))

C15_LoopNeverHalts ==
    /\ [][Running => Running']_vars
    \* iterations keep coming: the iteration counter of LiveSpec goes round
    /\ [](Running => <>(iters = 1))
    /\ [](Running => <>(iters # 1))
    /\ [](Running => <>AllSent)
    \* the write follows the poll within the iteration
    /\ [](nWrites = nPollOk)

\* two lines were waiting together and both have been handed to transmit, the
\* first of them failing, after a receive error
C15_Witness ==
    /\ Running /\ nTx = 2 /\ rxbuf = <<>> /\ fed >= LiveBytes - 1
    /\ nPollOk = 1 /\ nWrites = 1
    /\ \E i \in Idx("transmit") : ev[i].n = RADIOLIB_ERR_NONE
    /\ \E j \in Idx("receive") : ev[j].n \notin {RADIOLIB_ERR_NONE, RADIOLIB_ERR_RX_TIMEOUT}

----------------------------------------------------------------------------
(* C16: drawWrappedString draws segments whose concatenation, in order, is the
   message; each segment is lineHeight below the previous one, at the same x,
   the first at y; a break is made exactly when appending the next character
   makes the measured width exceed maxWidth; so every segment is at most
   maxWidth wide whenever each single character fits. *)

\* the text of the k-th drawString
SegText(k) == wrap.drawn[k][3]

RECURSIVE ConcatSegs(_)
ConcatSegs(k) == IF k = 0 THEN <<>> ELSE ConcatSegs(k - 1) \o SegText(k)

\* number of characters drawn before segment k
SegStart(k) == Len(ConcatSegs(k - 1))

C16_WrapIsExact ==
    wrap.done =>
        LET m == Len(wrap.drawn)
        IN  /\ ConcatSegs(m) = wrap.msg
            /\ \A k \in 1..m :
                  /\ wrap.drawn[k][1] = wrap.x
                  /\ wrap.drawn[k][2] = wrap.y + (k - 1) * wrap.lineHeight
            \* every break was forced by the character that starts the next line
            /\ \A k \in 1..(m - 1) :
                  /\ SegText(k + 1) # <<>>
                  /\ GetStringWidth(Append(SegText(k), SegText(k + 1)[1])) > wrap.maxWidth
            \* no break was missed: each character appended to a line kept it in width
            /\ \A k \in 1..m : \A j \in 1..Len(SegText(k)) :
                  (k = 1 \/ j > 1) =>
                      GetStringWidth(SubSeq(SegText(k), 1, j)) <= wrap.maxWidth
            /\ (\A i \in 1..Len(wrap.msg) : CharWidth(wrap.msg[i]) <= wrap.maxWidth)
                  => \A k \in 1..m : GetStringWidth(SegText(k)) <= wrap.maxWidth

\* a message whose characters all fit and that was broken into three lines
C16_Witness ==
    /\ wrap.done /\ Len(wrap.drawn) = 3
    /\ Len(wrap.msg) = MaxWrapLen
    /\ \A i \in 1..Len(wrap.msg) : CharWidth(wrap.msg[i]) <= wrap.maxWidth
    /\ \E k \in 1..3 : Len(SegText(k)) > 1

----------------------------------------------------------------------------
(* C17: the bridge loop consumes at most one serial line per iteration, and the
   payloads handed to lora.transmit are, in order, the non-empty trimmed forms
   of the lines consumed so far, in the order they arrived: no line is sent
   twice, reordered or skipped, even when several lines are buffered and
   receptions come in between. *)

\* number of lines the sketch has consumed
Consumed == Len(SplitLines(arrived)) - Len(SplitLines(rxbuf))

C17_State ==
    /\ Cardinality(Idx("read")) <= 1
    /\ Cardinality(Idx("transmit")) <= 1
    /\ Len(arrived) >= Len(rxbuf)
    /\ rxbuf = SubSeq(arrived, Len(arrived) - Len(rxbuf) + 1, Len(arrived))
    /\ sent = PayloadsOf(SplitLines(arrived), Consumed)

C17_Step ==
    /\ Consumed' - Consumed <= 1
    /\ Len(sent') - Len(sent) <= 1

C17_LinesInOrder == []C17_State /\ [][C17_Step]_vars

\* two different lines were buffered together, a datagram was received in
\* between, and both lines have been handed to transmit
C17_Witness ==
    /\ Running /\ Len(sent) = 2 /\ sent[1] # sent[2]
    /\ nPollOk > 0
    /\ Len(SplitLines(arrived)) = 2
    /\ \E i \in Idx("transmit") : ev[i].s = sent[2]
    /\ \E j \in Idx("receive") : ev[j].n # RADIOLIB_ERR_NONE

----------------------------------------------------------------------------
(* C18: in the echo sketch, a serial line that is non-empty after trimming is
   answered by exactly one println of "ECHO: " followed by the trimmed line; a
   line that is empty after trimming brings no serial write and no frame of
   its own (the 3-second status frame does not depend on the line); no radio
   operation is ever issued. *)

RadioOps == {"begin", "setSpreadingFactor", "setBandwidth", "setCodingRate",
             "setSyncWord", "standby", "transmit", "startReceive", "receive"}

IsStatusFrame(e) ==
    e.op = "display" /\ Len(e.frame) > 0 /\ e.frame[1][3] = S_WaitingFor

C18_EchoExact ==
    sketch = "echo" =>
        /\ \A i \in 1..Len(ev) : ev[i].op \notin RadioOps
        /\ mode = "Uninitialized" /\ nTx = 0 /\ nPollOk = 0
        /\ Cardinality(Idx("read")) <= 1
        /\ Idx("read") = {} => Idx("print") = {}
        /\ \A i \in Idx("read") :
              IF Trim(ev[i].s) # <<>>
              THEN /\ Cardinality(Idx("print")) = 1
                   /\ \A k \in Idx("print") :
                         k > i /\ ev[k].s = Println(S_Echo \o Trim(ev[i].s))
              ELSE /\ Idx("print") = {}
                   /\ \A k \in Idx("display") : IsStatusFrame(ev[k])
        /\ \A k \in Idx("display") :
              (iters > 0 /\ IsStatusFrame(ev[k])) => k = Len(ev)

\* a line with whitespace around it has been echoed trimmed
C18_Witness ==
    /\ sketch = "echo" /\ iters > 0
    /\ \E i \in Idx("read") : ev[i].s # Trim(ev[i].s) /\ Trim(ev[i].s) # <<>>
    /\ Idx("print") # {}

----------------------------------------------------------------------------
(* C19: in the responder sketch, a successful receive is followed by exactly
   one transmit of "Hello World!", issued after standby, and by startReceive
   after that transmit whether it succeeded or failed; a timeout or an error
   of the poll is followed by no standby, no transmit and no startReceive. *)

ResponderIteration == sketch = "responder" /\ iters > 0

C19_ReplyOncePerReceive ==
    ResponderIteration =>
        /\ Cardinality(Idx("receive")) = 1
        /\ \A r \in Idx("receive") :
              IF ev[r].n = RADIOLIB_ERR_NONE
              THEN /\ Cardinality(Idx("transmit")) = 1
                   /\ Cardinality(Idx("standby")) = 1
                   /\ Cardinality(Idx("startReceive")) = 1
                   /\ \A t \in Idx("transmit") :
                         /\ ev[t].s = S_Hello
                         /\ \A s \in Idx("standby") : r < s /\ s < t
                         /\ ev[t].m = "Standby"
                         /\ \A a \in Idx("startReceive") : t < a
              ELSE /\ Idx("standby") = {}
                   /\ Idx("transmit") = {}
                   /\ Idx("startReceive") = {}

\* a reply whose transmit failed, with receive mode entered after it
C19_Witness ==
    /\ ResponderIteration
    /\ \E r \in Idx("receive") : ev[r].n = RADIOLIB_ERR_NONE
    /\ \E t \in Idx("transmit") :
          /\ ev[t].n # RADIOLIB_ERR_NONE
          /\ \E a \in Idx("startReceive") : a > t

----------------------------------------------------------------------------
(* C20: two consecutive idle renders of the bridge loop are more than 1000 ms
   of millis() time apart, and the test millis() - lastActivity > 1000, made
   in unsigned 32-bit arithmetic, gives the answer of the true elapsed time
   also when millis() has wrapped round in between: no render too early, none
   missed. *)

\* the time x counted from the wrap of millis(), negative before it, for x
\* within 2^16 ms of the wrap
FromWrap(x) == IF x.hi = Half - 1 THEN x.lo - Half ELSE x.lo

NearWrap(x) == x.hi \in {0, Half - 1}

\* a step that runs one iteration of loop(): the test is made when the calls
\* before the idle frame have returned, and lastActivity is written from the
\* millis() read after the frame is shown, which is now'
C20_Step ==
    (sketch = "bridge" /\ pc = "loop" /\ iters' = iters + 1) =>
        LET idle     == {k \in 1..Len(ev') : IsIdleFrame(ev'[k])}
            rendered == idle # {}
            tested   == IF rendered
                        THEN FromWrap(now) + ev'[CHOOSE k \in idle : TRUE].t
                        ELSE FromWrap(now')
            elapsed  == tested - FromWrap(lastActivity)
        IN  /\ rendered <=> elapsed > IdleInterval
            /\ Cardinality(idle) <= 1
            /\ tested <= FromWrap(now')
            /\ lastActivity' = IF rendered THEN now' ELSE lastActivity

C20_ElapsedAcrossWrap ==
    /\ [](NearWrap(now) /\ NearWrap(lastActivity)
            /\ FromWrap(lastActivity) <= FromWrap(now))
    /\ [][C20_Step]_vars

\* the idle frame was drawn after the wrap, lastActivity having been written
\* before it
C20_Witness ==
    /\ BridgeIteration /\ iters = 1
    /\ now.hi = 0 /\ lastActivity = now
    /\ \E k \in 1..Len(ev) : IsIdleFrame(ev[k])

====
